---- MODULE Spec2Model ----
(***************************************************************************)
(* Model of the study-group assigner.                                      *)
(*                                                                         *)
(* study_groups.solve builds a CP-SAT model (one boolean per student and   *)
(* group, hard constraints, a weighted sum of penalties), runs the solver  *)
(* and turns the solver's values into a list of groups.  The solver is a   *)
(* library: it is modelled by its contract.  OPTIMAL comes with a          *)
(* minimum-objective point of the hard constraints, FEASIBLE with any      *)
(* point of them, INFEASIBLE only when there is none, and UNKNOWN (time    *)
(* budget spent) is possible for every model.  solve is one call; pc       *)
(* follows it through its stages (start, built, solved, returned or        *)
(* raised) so that the model and the solver status can be spoken of.       *)
(*                                                                         *)
(* class-optimisation.py, the script for a fixed list of classes, is the   *)
(* second program of the module (pc from class_start on).                  *)
(***************************************************************************)
EXTENDS Integers, Sequences, FiniteSets, TLC

\* ---- bounds of the explored inputs -------------------------------------
MaxN == 3
MaxGroupSize == 3
NonPositiveSizes == 1
MaxPairs == 2
ClassSlack == 2

VARIABLES pc, students, group_size, same_sex, prior_together_pairs,
          G, model, status, assign, groups, error,
          class_students, class_values, class_grouping

vars == <<pc, students, group_size, same_sex, prior_together_pairs,
          G, model, status, assign, groups, error,
          class_students, class_values, class_grouping>>

\* the arguments of solve
inputVars == <<students, group_size, same_sex, prior_together_pairs>>

\* the state of class-optimisation.py
classVars == <<class_students, class_values, class_grouping>>

\* ---- arithmetic helpers ------------------------------------------------
Abs(x) == IF x < 0 THEN 0 - x ELSE x

Max(S) == CHOOSE x \in S : \A y \in S : y <= x

Min(S) == CHOOSE x \in S : \A y \in S : x <= y

RECURSIVE SumRange(_, _, _)
\* sum(f[i] for i in lo..hi)
SumRange(f, lo, hi) == IF hi < lo THEN 0 ELSE f[hi] + SumRange(f, lo, hi - 1)

RECURSIVE SumOver(_, _)
\* sum(f[x] for x in S), S a finite set
SumOver(f, S) ==
    IF S = {} THEN 0
    ELSE LET x == CHOOSE y \in S : TRUE IN f[x] + SumOver(f, S \ {x})

\* ---- names: a name is a sequence of characters -------------------------
RECURSIVE lstrip(_)
lstrip(s) == IF s # <<>> /\ Head(s) = " " THEN lstrip(Tail(s)) ELSE s

RECURSIVE rstrip(_)
rstrip(s) == IF s # <<>> /\ s[Len(s)] = " "
             THEN rstrip(SubSeq(s, 1, Len(s) - 1)) ELSE s

\* str.strip()
strip(s) == rstrip(lstrip(s))

Ann == <<"a", "n", "n">>
Bob == <<"b", "o", "b">>
CyPadded == <<" ", "c", "y", " ">>
Dee == <<"d", "e", "e">>
Zed == <<"z", "e", "d">>

Digits == <<"0", "1", "2", "3", "4", "5", "6", "7", "8", "9">>

\* a first-name cell for the row i that no other row has
NumberedName(i) == <<"s", Digits[(i \div 10) + 1], Digits[(i % 10) + 1]>>

\* the first-name cells of a sheet by row: the third carries blanks around it
\* and the fourth repeats the first, as two students of one sheet may; the
\* last-name cells are empty
RosterName(i) == CASE i = 1 -> Ann [] i = 2 -> Bob [] i = 3 -> CyPadded
                   [] i = 4 -> Ann [] i = 5 -> Dee [] OTHER -> NumberedName(i)

\* the characters of the names in the order of their code points
Alphabet ==
    <<" ", "0", "1", "2", "3", "4", "5", "6", "7", "8", "9",
      "S", "a", "b", "c", "d", "e", "f", "g", "h", "i", "j", "k", "l", "m",
      "n", "o", "p", "q", "r", "s", "t", "u", "v", "w", "x", "y", "z">>

CharRank(c) == CHOOSE i \in 1..Len(Alphabet) : Alphabet[i] = c

RECURSIVE NameLessEq(_, _)
\* a <= b for two str values
NameLessEq(a, b) ==
    IF a = <<>> THEN TRUE
    ELSE IF b = <<>> THEN FALSE
    ELSE IF Head(a) = Head(b) THEN NameLessEq(Tail(a), Tail(b))
    ELSE CharRank(Head(a)) < CharRank(Head(b))

\* f"Student {row_idx}"
StudentFallbackName(row_idx) ==
    <<"S", "t", "u", "d", "e", "n", "t", " ">>
    \o (IF row_idx >= 10 THEN <<Digits[(row_idx \div 10) + 1]>> ELSE <<>>)
    \o <<Digits[(row_idx % 10) + 1]>>

\* the cells are stripped, the non-empty ones joined by a blank
full_name(first_cell, last_cell, row_idx) ==
    LET first == strip(first_cell)
        last == strip(last_cell)
    IN IF first # <<>> /\ last # <<>> THEN first \o <<" ">> \o last
       ELSE IF first # <<>> THEN first
       ELSE IF last # <<>> THEN last
       ELSE StudentFallbackName(row_idx)

\* ---- the inputs of solve -----------------------------------------------
Sexes == {"F", "M"}

\* the list load_students_from_excel hands over for a sheet whose rows all
\* hold a student: ids count the kept rows
StudentList(sexes) ==
    [i \in 1..Len(sexes) |->
        [id |-> i - 1, name |-> full_name(RosterName(i), <<>>, i), sex |-> sexes[i]]]

SexLists == UNION {[1..k -> Sexes] : k \in 0..MaxN}

GroupSizes == (0 - NonPositiveSizes)..MaxGroupSize

\* the pair get_prior_together_pairs adds for two name cells of one group:
\* both stripped, the smaller first
PriorPair(cell_a, cell_b) ==
    LET a == strip(cell_a)
        b == strip(cell_b)
    IN IF NameLessEq(a, b) THEN <<a, b>> ELSE <<b, a>>

\* pairs as get_prior_together_pairs finds them on earlier sheets: two that
\* resolve (one read from a cell with blanks around the name), one with a
\* name that is not in the batch, and one of two students of the same name
PairPool ==
    {PriorPair(Bob, Ann), PriorPair(CyPadded, Bob), PriorPair(Zed, Ann),
     PriorPair(Ann, Ann)}

PairSets == {P \in SUBSET PairPool : Cardinality(P) <= MaxPairs}

\* the concrete batches of the specification's scenarios 1, 3 and 4
Scenarios ==
    {[sexes |-> <<"F", "F", "F", "F", "F", "F", "M", "M", "M", "M">>,
      group_size |-> 5, pairs |-> {}],
     [sexes |-> <<"F", "F", "F", "F", "F", "M">>,
      group_size |-> 3, pairs |-> {}],
     [sexes |-> <<"F", "M", "F", "M">>,
      group_size |-> 2, pairs |-> {PriorPair(Ann, Bob)}]}

NoAssign == [i \in {} |-> 0]
NoError == <<"", "", "">>

\* ---- what solve derives from its inputs --------------------------------
n == Len(students)

Ids == {students[i].id : i \in 1..Len(students)}

Groups == 0..(G - 1)

\* a slip: the quotient is rounded down
floor_div(a, b) == a \div b

\* a slip: one more than the quotient, also when the division is exact
quotient_plus_one(a, b) == (a \div b) + 1

\* ceil(n / group_size)
ceil(a, b) == IF a % b = 0 THEN a \div b ELSE (a \div b) + 1

females == {students[i].id : i \in {j \in 1..Len(students) : students[j].sex = "F"}}

males == {students[i].id : i \in {j \in 1..Len(students) : students[j].sex = "M"}}

size_weight == 1
balance_weight == 2
pair_weight == 10

\* ---- the prior pairs that name two students of the batch --------------
NameKeys == {strip(students[i].name) : i \in 1..Len(students)}

\* {s["name"].strip(): s["id"] for s in students}: a later student replaces an earlier one
name_to_id ==
    [k \in NameKeys |->
        students[Max({i \in 1..Len(students) : strip(students[i].name) = k})].id]

None == 0 - 1

\* name_to_id.get(name)
id_of(name) == IF name \in NameKeys THEN name_to_id[name] ELSE None

\* the pairs of the set that the loop does not skip
Resolved(p) ==
    ~(id_of(p[1]) = None \/ id_of(p[2]) = None \/ id_of(p[1]) = id_of(p[2]))

\* id1 and id2 of every pair that is not skipped
ResolvedIds ==
    [p \in {q \in prior_together_pairs : Resolved(q)} |-> <<id_of(p[1]), id_of(p[2])>>]

\* ---- the hard constraints ----------------------------------------------
\* a slip: a student may also be left out
AtMostOne(row) == SumRange(row, 0, G - 1) <= 1

\* sum(assign[(s, g)] for g in range(G)) == 1
ExactlyOne(row) == SumRange(row, 0, G - 1) = 1

\* sum(assign[(s, g)] for s in S): the values are 0 or 1, so the sum counts the ones
CountIn(a, S, g) == Cardinality({s \in S : a[s][g] = 1})

\* a slip: the rule asks for more of each sex than there are groups
EnoughOfEachStrict(k) ==
    /\ females # {} /\ males # {}
    /\ Cardinality(females) > k /\ Cardinality(males) > k

\* a slip: only the number of F students is compared with the number of groups
EnoughFemalesOnly(k) ==
    /\ females # {} /\ males # {}
    /\ Cardinality(females) >= k

\* a slip: the rule is added as soon as both sexes are present
AnyOfEach(k) == females # {} /\ males # {}

\* len(females) >= G and len(males) >= G, both lists non-empty
EnoughOfEach(k) ==
    /\ females # {} /\ males # {}
    /\ Cardinality(females) >= k /\ Cardinality(males) >= k

\* AddMultiplicationEquality(both_in_g, [assign[(id1, g)], assign[(id2, g)]])
\* for every pair that is not skipped and every group; the constraint is on
\* the two students and the group
PairRules(k, ids) ==
    {[kind |-> "both_in_g", on |-> <<ids[p][1], ids[p][2], g>>] :
        p \in DOMAIN ids, g \in 0..(k - 1)}

\* the constraints model.Add registers, by kind and by student or group
BuiltModel(k) ==
    {[kind |-> "exactly_one", on |-> s] : s \in Ids}
    \cup {[kind |-> "capacity", on |-> g] : g \in 0..(k - 1)}
    \cup (IF same_sex
          THEN {[kind |-> "same_sex", on |-> g] : g \in 0..(k - 1)}
          ELSE IF EnoughOfEach(k)
               THEN {[kind |-> "female_min", on |-> g] : g \in 0..(k - 1)}
                    \cup {[kind |-> "male_min", on |-> g] : g \in 0..(k - 1)}
               ELSE {})
    \cup {[kind |-> "size_domain", on |-> g] : g \in 0..(k - 1)}
    \cup {[kind |-> "dev_domain", on |-> g] : g \in 0..(k - 1)}
    \cup (IF same_sex THEN {}
          ELSE {[kind |-> "imbalance_domain", on |-> g] : g \in 0..(k - 1)})
    \cup PairRules(k, ResolvedIds)

\* the three sums the per-group constraints are written over, for every group
Counts(a) ==
    [g \in Groups |->
        [size |-> CountIn(a, Ids, g),
         female_count |-> CountIn(a, females, g),
         male_count |-> CountIn(a, males, g)]]

\* a slip: one member too many is let in
CapacityRuleLoose(size) == size <= group_size + 1

\* sum(assign[(s, g)] for s in students) <= group_size
CapacityRule(size) == size <= group_size

\* a slip: the constraint for the negated indicator is forgotten
SameSexRuleOneWay(female_count, male_count) ==
    \E is_female_only \in BOOLEAN : is_female_only => male_count = 0

\* model.Add(male_count == 0).OnlyEnforceIf(is_female_only) and
\* model.Add(female_count == 0).OnlyEnforceIf(is_female_only.Not()),
\* for some value of the group's indicator
SameSexRule(female_count, male_count) ==
    \E is_female_only \in BOOLEAN :
        /\ is_female_only => male_count = 0
        /\ ~is_female_only => female_count = 0

\* a slip: the pair is kept apart by a constraint, both_in_g fixed to 0
PairForbidden(x1, x2) == x1 * x2 = 0

\* both_in_g, a new boolean variable, equals the product of the two variables
PairProductRule(x1, x2) == \E both_in_g_value \in {0, 1} : both_in_g_value = x1 * x2

\* does the point a, with sums cnt, satisfy the constraint c
Satisfies(a, cnt, c) ==
    CASE c.kind = "exactly_one" -> ExactlyOne(a[c.on])
      [] c.kind = "capacity" -> CapacityRule(cnt[c.on].size)
      [] c.kind = "same_sex" ->
            SameSexRule(cnt[c.on].female_count, cnt[c.on].male_count)
      [] c.kind = "female_min" -> cnt[c.on].female_count >= 1
      [] c.kind = "male_min" -> cnt[c.on].male_count >= 1
      [] c.kind = "size_domain" -> cnt[c.on].size \in 0..n
      [] c.kind = "dev_domain" ->
            Abs(cnt[c.on].size - group_size) \in 0..group_size
      [] c.kind = "imbalance_domain" ->
            Abs(cnt[c.on].female_count - cnt[c.on].male_count) \in 0..group_size
      [] c.kind = "both_in_g" ->
            PairProductRule(a[c.on[1]][c.on[3]], a[c.on[2]][c.on[3]])

\* the rows the per-student constraints of m leave to student s
RowDomain(m, s) ==
    {row \in [Groups -> {0, 1}] :
        \A c \in m : (c.kind = "exactly_one" /\ c.on = s) => ExactlyOne(row)}

\* the points of the model m: values of all assign[(s, g)] meeting every constraint
FeasiblePoints(m) ==
    LET rows == [s \in Ids |-> RowDomain(m, s)]
        rest == {c \in m : c.kind # "exactly_one"}
    IN {a \in [Ids -> UNION {rows[s] : s \in Ids}] :
          /\ \A s \in Ids : a[s] \in rows[s]
          /\ LET cnt == Counts(a) IN \A c \in rest : Satisfies(a, cnt, c)}

\* ---- the objective -----------------------------------------------------
\* a slip: the indicator is the OR of the two variables
either_in_g(a, id1, id2, g) == IF a[id1][g] = 1 \/ a[id2][g] = 1 THEN 1 ELSE 0

\* both_in_g = assign[(id1, g)] * assign[(id2, g)]
both_in_g(a, id1, id2, g) == a[id1][g] * a[id2][g]

SizePenalty(a) ==
    SumRange([g \in Groups |-> Abs(CountIn(a, Ids, g) - group_size) * size_weight],
             0, G - 1)

BalancePenalty(a) ==
    IF same_sex THEN 0
    ELSE SumRange([g \in Groups |->
                     Abs(CountIn(a, females, g) - CountIn(a, males, g))
                         * balance_weight], 0, G - 1)

\* the terms the pair (id1, id2) adds to the penalties, one for every group
PairTerm(a, id1, id2) ==
    SumRange([g \in Groups |-> both_in_g(a, id1, id2, g) * pair_weight], 0, G - 1)

\* the terms of all the pairs ids holds
PairPenalty(a, ids) ==
    SumOver([p \in DOMAIN ids |-> PairTerm(a, ids[p][1], ids[p][2])], DOMAIN ids)

\* sum(penalties)
Objective(a, ids) == SizePenalty(a) + BalancePenalty(a) + PairPenalty(a, ids)

\* the points of F with the least objective
OptimalPoints(F) ==
    LET ids == ResolvedIds
        value == [a \in F |-> Objective(a, ids)]
        best == Min({value[a] : a \in F})
    IN {a \in F : value[a] = best}

\* ---- the result --------------------------------------------------------
SolutionStatuses == {"OPTIMAL", "FEASIBLE"}

\* the first g with solver.Value(assign[(s, g)]) == 1, or -1
FirstGroup(a, s) ==
    IF \E g \in Groups : a[s][g] = 1
    THEN Min({g \in Groups : a[s][g] = 1})
    ELSE 0 - 1

\* groups[g] collects the students in input order
BuiltGroups(a) ==
    [g \in 1..G |-> SelectSeq(students, LAMBDA s : FirstGroup(a, s.id) = g - 1)]

\* a slip: no group at all for the empty list
NoGroups == <<>>

\* return [[]]
EmptyResult == << <<>> >>

\* a slip: the status name is left out of the message
SolverErrorUnnamed(st) == <<"RuntimeError", "Solver could not find a solution", "">>

\* RuntimeError(f"Solver could not find a solution: {solver.StatusName(status)}")
SolverError(st) == <<"RuntimeError", "Solver could not find a solution: ", st>>

\* ---- the state machine -------------------------------------------------
GroupInit ==
    /\ pc = "start"
    /\ \/ /\ \E sexes \in SexLists : students = StudentList(sexes)
          /\ group_size \in GroupSizes
          /\ prior_together_pairs \in PairSets
       \/ \E sc \in Scenarios :
             /\ students = StudentList(sc.sexes)
             /\ group_size = sc.group_size
             /\ prior_together_pairs = sc.pairs
    /\ same_sex \in BOOLEAN
    /\ G = 0
    /\ model = {}
    /\ status = "NONE"
    /\ assign = NoAssign
    /\ groups = <<>>
    /\ error = NoError
    /\ class_students = [F |-> 0, M |-> 0]
    /\ class_values = <<>>
    /\ class_grouping = <<>>

\* if n == 0: return [[]]
ReturnEmpty ==
    /\ pc = "start"
    /\ n = 0
    /\ pc' = "returned"
    /\ groups' = EmptyResult
    /\ UNCHANGED <<inputVars, classVars,
                   G, model, status, assign, error>>

\* if group_size <= 0: raise ValueError
RaiseInvalid ==
    /\ pc = "start"
    /\ n # 0
    /\ group_size <= 0
    /\ pc' = "raised"
    /\ error' = <<"ValueError", "group_size must be positive", "">>
    /\ UNCHANGED <<inputVars, classVars,
                   G, model, status, assign, groups>>

\* the variables, the hard constraints and the objective are set up
BuildModel ==
    /\ pc = "start"
    /\ n # 0
    /\ group_size > 0
    /\ pc' = "built"
    /\ G' = ceil(n, group_size)
    /\ model' = BuiltModel(ceil(n, group_size))
    /\ UNCHANGED <<inputVars, classVars,
                   status, assign, groups, error>>

\* status = solver.Solve(model), within max_time_in_seconds
Solve ==
    /\ pc = "built"
    /\ pc' = "solved"
    /\ LET F == FeasiblePoints(model)
       IN \/ /\ status' = "OPTIMAL"
             /\ \E a \in OptimalPoints(F) : assign' = a
          \/ /\ status' = "FEASIBLE"
             /\ \E a \in F : assign' = a
          \/ /\ F = {}
             /\ status' = "INFEASIBLE"
             /\ assign' = assign
          \/ /\ status' = "UNKNOWN"
             /\ assign' = assign
    /\ UNCHANGED <<inputVars, classVars,
                   G, model, groups, error>>

\* status in (OPTIMAL, FEASIBLE): build and return the groups
ReturnGroups ==
    /\ pc = "solved"
    /\ status \in SolutionStatuses
    /\ groups' = BuiltGroups(assign)
    /\ pc' = "returned"
    /\ UNCHANGED <<inputVars, classVars,
                   G, model, status, assign, error>>

\* any other status: raise RuntimeError with the status name
RaiseNoSolution ==
    /\ pc = "solved"
    /\ status \notin SolutionStatuses
    /\ error' = SolverError(status)
    /\ pc' = "raised"
    /\ UNCHANGED <<inputVars, classVars,
                   G, model, status, assign, groups>>

\* ---- class-optimisation.py ---------------------------------------------
\* The script splits the students of a CSV file into the classes of
\* class_config.  Its constraints read the students only through the number
\* of F and of M students a class gets, so a batch is modelled by its two
\* counts and a solver point by the counts of every class, in class order.
\* The remaining penalties (origin, subject, language) depend on columns that
\* are not modelled; which points are optimal is therefore left open, and
\* OPTIMAL, like FEASIBLE, may come with any point of the hard constraints.

\* len(cfg.CLASSES)
CLASSES == 9
MAX_CLASS_SIZE == 32
MIN_CLASS_SIZE == 20
MIN_FEMALE_PER_CLASS == 3
MIN_MALE_PER_CLASS == 3
CLASS_BALANCE_WEIGHT == 2

\* batch sizes from one below the least number the classes can hold, and
\* around the greatest
ClassTotals ==
    ((CLASSES * MIN_CLASS_SIZE - 1)..(CLASSES * MIN_CLASS_SIZE + ClassSlack))
    \cup ((CLASSES * MAX_CLASS_SIZE - 1)..(CLASSES * MAX_CLASS_SIZE + 1))

\* numbers of F students around the least number the classes need
ClassFemales ==
    (CLASSES * MIN_FEMALE_PER_CLASS - 1)..(CLASSES * MIN_FEMALE_PER_CLASS + 1)

\* len(students)
class_n == class_students.F + class_students.M

min_female == MIN_FEMALE_PER_CLASS
max_female == class_n - 2
min_male == MIN_MALE_PER_CLASS
max_male == class_n - 2

target_floor == class_n \div CLASSES
target_ceil == (class_n + CLASSES - 1) \div CLASSES

\* the four bounds on female_count and male_count of a class
SexCountRule(female_count, male_count) ==
    /\ female_count >= min_female
    /\ female_count <= max_female
    /\ male_count >= min_male
    /\ male_count <= max_male

\* class_size <= MAX_CLASS_SIZE and class_size >= MIN_CLASS_SIZE
ClassSizeRule(class_size) ==
    /\ class_size <= MAX_CLASS_SIZE
    /\ class_size >= MIN_CLASS_SIZE

\* a slip: the larger of the two deviations is taken
MaxEquality(dev_floor, dev_ceil) == IF dev_floor <= dev_ceil THEN dev_ceil ELSE dev_floor

\* AddMinEquality(dev, [dev_floor, dev_ceil])
MinEquality(dev_floor, dev_ceil) == IF dev_floor <= dev_ceil THEN dev_floor ELSE dev_ceil

\* the values of the variables of one class that holds f F and m M students
ClassValues(f, m) ==
    [female_count |-> f,
     male_count |-> m,
     class_size |-> f + m,
     dev_floor |-> Abs(f + m - target_floor),
     dev_ceil |-> Abs(f + m - target_ceil),
     size_dev |-> MinEquality(Abs(f + m - target_floor), Abs(f + m - target_ceil))]

\* penalties.append(dev * CLASS_BALANCE_WEIGHT)
ClassBalancePenalty(size_dev) == size_dev * CLASS_BALANCE_WEIGHT

\* the hard constraints on one class, with the domains of its variables
ClassRules(v) ==
    /\ SexCountRule(v.female_count, v.male_count)
    /\ ClassSizeRule(v.class_size)
    /\ v.class_size \in 0..class_n
    /\ v.dev_floor \in 0..class_n
    /\ v.dev_ceil \in 0..class_n
    /\ v.size_dev \in 0..class_n

\* can k more classes take f F and m M students at all: without this test the
\* enumeration below would follow prefixes that no class list completes
Completable(k, f, m) ==
    /\ f >= k * min_female /\ m >= k * min_male
    /\ f + m >= k * MIN_CLASS_SIZE /\ f + m <= k * MAX_CLASS_SIZE

RECURSIVE ClassPoints(_, _, _)
\* the points of the model: every student in exactly one of the k classes
\* (the counts use up f and m) and every class within its rules
ClassPoints(k, f, m) ==
    IF k = 0 THEN (IF f = 0 /\ m = 0 THEN {<<>>} ELSE {})
    ELSE LET sizes == {z \in 0..(f + m) : ClassSizeRule(z)}
             firsts == {v \in UNION {{ClassValues(x, z - x) :
                                          x \in {y \in 0..z : y <= f /\ z - y <= m}} :
                                      z \in sizes} :
                          /\ ClassRules(v)
                          /\ Completable(k - 1, f - v.female_count, m - v.male_count)}
         IN UNION {{<<v>> \o rest :
                        rest \in ClassPoints(k - 1, f - v.female_count,
                                             m - v.male_count)} : v \in firsts}

\* class_grouping[c]: the students of class c, by sex
ClassGrouping(values) ==
    [c \in 1..Len(values) |->
        [F |-> values[c].female_count, M |-> values[c].male_count]]

\* students = load_students_from_csv(cfg.CSV_PATH)
ClassInit ==
    /\ pc = "class_start"
    /\ \E t \in ClassTotals, f \in ClassFemales :
          class_students = [F |-> f, M |-> t - f]
    /\ class_values = <<>>
    /\ class_grouping = <<>>
    /\ students = <<>>
    /\ group_size = 0
    /\ same_sex = FALSE
    /\ prior_together_pairs = {}
    /\ G = 0
    /\ model = {}
    /\ status = "NONE"
    /\ assign = NoAssign
    /\ groups = <<>>
    /\ error = NoError

\* the model is built and status = solver.Solve(model)
ClassSolve ==
    /\ pc = "class_start"
    /\ pc' = "class_solved"
    /\ LET P == ClassPoints(CLASSES, class_students.F, class_students.M)
       IN \/ /\ status' \in SolutionStatuses
             /\ \E v \in P : class_values' = v
          \/ /\ P = {}
             /\ status' = "INFEASIBLE"
             /\ class_values' = class_values
          \/ /\ status' = "UNKNOWN"
             /\ class_values' = class_values
    /\ UNCHANGED <<inputVars, class_students, class_grouping,
                   G, model, assign, groups, error>>

\* status is OPTIMAL or FEASIBLE: the classes are collected and reported
ClassReport ==
    /\ pc = "class_solved"
    /\ status \in SolutionStatuses
    /\ class_grouping' = ClassGrouping(class_values)
    /\ pc' = "class_reported"
    /\ UNCHANGED <<inputVars, class_students, class_values,
                   G, model, status, assign, groups, error>>

\* else: print("Could not find a solution that satisfies all hard constraints.")
ClassNoSolution ==
    /\ pc = "class_solved"
    /\ status \notin SolutionStatuses
    /\ pc' = "class_failed"
    /\ UNCHANGED <<inputVars, classVars, G, model, status, assign, groups, error>>

Init == GroupInit \/ ClassInit

Next ==
    \/ ReturnEmpty
    \/ RaiseInvalid
    \/ BuildModel
    \/ Solve
    \/ ReturnGroups
    \/ RaiseNoSolution
    \/ ClassSolve
    \/ ClassReport
    \/ ClassNoSolution

Spec == Init /\ [][Next]_vars

\* ---- properties --------------------------------------------------------
\* the positions of the returned groups that hold the student s
Places(s) ==
    {pos \in UNION {{<<g, k>> : k \in 1..Len(groups[g])} : g \in 1..Len(groups)} :
        groups[pos[1]][pos[2]] = s}

\* the sexes found in a group
SexesIn(group) == {group[k].sex : k \in 1..Len(group)}

\* C1: when solve returns for a non-empty list, the returned groups partition
\* the input: every student record is at exactly one place of exactly one
\* group, and the group lengths add up to the number of students.
C1_Partition ==
    (pc = "returned" /\ n > 0) =>
        /\ \A i \in 1..n : Cardinality(Places(students[i])) = 1
        /\ SumRange([g \in 1..Len(groups) |-> Len(groups[g])], 1, Len(groups)) = n

C1_Witness ==
    /\ pc = "returned"
    /\ n >= 3
    /\ Len(groups) >= 2
    /\ \E g \in 1..Len(groups) : Len(groups[g]) >= 2

\* C2: every solution the solver returns keeps every bin within its bounds:
\* a returned group has between 0 and group_size members, a reported class
\* between MIN_CLASS_SIZE and MAX_CLASS_SIZE.
C2_BinSizes ==
    /\ (pc = "returned" /\ status \in {"OPTIMAL", "FEASIBLE"}) =>
          \A g \in 1..Len(groups) :
              Len(groups[g]) >= 0 /\ Len(groups[g]) <= group_size
    /\ pc = "class_reported" =>
          \A c \in 1..Len(class_grouping) :
              /\ class_grouping[c].F + class_grouping[c].M >= MIN_CLASS_SIZE
              /\ class_grouping[c].F + class_grouping[c].M <= MAX_CLASS_SIZE

\* a returned group that is full
C2_Witness ==
    /\ pc = "returned"
    /\ status \in {"OPTIMAL", "FEASIBLE"}
    /\ Len(groups) >= 2
    /\ \E g \in 1..Len(groups) : Len(groups[g]) = group_size

\* C3: the number of groups is the least K with K * group_size >= N, the
\* result has exactly K groups, and exactly-one together with the size limit
\* always has a point.
C3_GroupCount ==
    (pc \in {"built", "solved", "returned"} /\ n > 0) =>
        /\ G * group_size >= n
        /\ (G - 1) * group_size < n
        /\ pc = "returned" => Len(groups) = G
        /\ pc = "built" =>
              FeasiblePoints({c \in model : c.kind \in {"exactly_one", "capacity"}}) # {}

\* three students in groups of two
C3_Witness ==
    /\ pc = "returned"
    /\ Len(groups) >= 2
    /\ group_size >= 2
    /\ n % group_size # 0

\* C4: in same-sex mode every group returned for a non-empty list is
\* non-empty and holds one sex only.
C4_SameSex ==
    (pc = "returned" /\ n > 0 /\ same_sex) =>
        \A g \in 1..Len(groups) : Cardinality(SexesIn(groups[g])) = 1

C4_Witness ==
    /\ pc = "returned"
    /\ same_sex
    /\ females # {} /\ males # {}
    /\ Len(groups) >= 2

\* C5: in mixed mode with count(F) >= K and count(M) >= K every returned
\* group holds at least one F and at least one M.
C5_MixedBothSexes ==
    (/\ pc = "returned" /\ n > 0 /\ ~same_sex
     /\ Cardinality(females) >= G /\ Cardinality(males) >= G) =>
        \A g \in 1..Len(groups) : SexesIn(groups[g]) = {"F", "M"}

\* scenario 1: ten students, six F and four M, groups of five
C5_Witness ==
    /\ pc = "returned"
    /\ ~same_sex
    /\ n = 10 /\ Cardinality(females) = 6 /\ group_size = 5
    /\ Len(groups) = 2

\* the points that meet exactly-one and the size limit, written without the model
BasicPoints ==
    {a \in [Ids -> {row \in [Groups -> {0, 1}] : SumRange(row, 0, G - 1) = 1}] :
        \A g \in Groups : Cardinality({s \in Ids : a[s][g] = 1}) <= group_size}

\* C6: in mixed mode with count(F) < K or count(M) < K the model holds no
\* composition constraint for any group, and its points are exactly the
\* assignments that meet exactly-one and the size limit.
C6_RuleSkipped ==
    (/\ pc = "built" /\ ~same_sex
     /\ (Cardinality(females) < G \/ Cardinality(males) < G)) =>
        /\ \A c \in model : c.kind \notin {"female_min", "male_min", "same_sex"}
        /\ FeasiblePoints(model) = BasicPoints

\* a returned single-sex group although both sexes are in the batch
C6_Witness ==
    /\ pc = "returned"
    /\ ~same_sex
    /\ females # {} /\ males # {}
    /\ Cardinality(females) < G \/ Cardinality(males) < G
    /\ \E g \in 1..Len(groups) : Cardinality(SexesIn(groups[g])) = 1

\* C7: the docstring of solve: in mixed mode no returned group is
\* single-sex (stated here for the non-empty lists only).
C7_MixedNeverSingleSex ==
    (pc = "returned" /\ n > 0 /\ ~same_sex) =>
        \A g \in 1..Len(groups) : SexesIn(groups[g]) = {"F", "M"}

\* C8: an empty list gives the one empty group and no error, whatever the
\* mode and the prior pairs.
C8_EmptyList ==
    (pc \in {"start", "built", "solved", "returned", "raised"} /\ n = 0) =>
        /\ pc \in {"start", "returned"}
        /\ error = NoError
        /\ pc = "returned" => (Len(groups) = 1 /\ groups[1] = <<>>)

C8_Witness ==
    /\ pc = "returned"
    /\ n = 0
    /\ prior_together_pairs # {}

\* C9: groups are returned only on OPTIMAL or FEASIBLE; on any other status
\* the call raises an error that names the status and returns no groups; the
\* student list is never changed.
C9_FailureSignal ==
    [][/\ students' = students
       /\ (pc' = "returned" /\ n > 0) => status' \in {"OPTIMAL", "FEASIBLE"}
       /\ (pc = "solved" /\ status \notin {"OPTIMAL", "FEASIBLE"}) =>
             /\ pc' = "raised"
             /\ error'[1] = "RuntimeError"
             /\ error'[3] = status
             /\ groups' = <<>>
       /\ pc' = "raised" => groups' = <<>>]_vars

C9_Witness ==
    /\ pc = "raised"
    /\ status = "INFEASIBLE"

\* every complete assignment: each student in exactly one group
CompleteAssignments ==
    [Ids -> {row \in [Groups -> {0, 1}] : SumRange(row, 0, G - 1) = 1}]

\* the students id1 and id2 share a group under a
Together(a, id1, id2) == \E g \in Groups : a[id1][g] = 1 /\ a[id2][g] = 1

\* what the objective makes of the assignment a, seen from the pair p of ids
Scored(a, ids, p) ==
    [together |-> Together(a, ids[p][1], ids[p][2]),
     hits |-> Cardinality({g \in Groups : both_in_g(a, ids[p][1], ids[p][2], g) = 1}),
     pair |-> PairTerm(a, ids[p][1], ids[p][2]),
     rest |-> <<SizePenalty(a), BalancePenalty(a),
                [q \in DOMAIN ids \ {p} |-> PairTerm(a, ids[q][1], ids[q][2])]>>,
     objective |-> Objective(a, ids)]

\* C10: for a prior pair that resolves to two distinct students, a complete
\* assignment putting them together scores exactly the pair weight more than
\* one separating them with all other penalty terms equal; the pair
\* contributes its weight in exactly one group when together, nothing apart.
C10_PairPenalty ==
    pc = "built" =>
        LET ids == ResolvedIds
        IN \A p \in DOMAIN ids :
              \A x, y \in {Scored(a, ids, p) : a \in CompleteAssignments} :
                  /\ x.together => (x.hits = 1 /\ x.pair = 10)
                  /\ ~x.together => (x.hits = 0 /\ x.pair = 0)
                  /\ (x.together /\ ~y.together /\ x.rest = y.rest) =>
                        x.objective = y.objective + 10

\* the solver put a prior pair together although a complete assignment with
\* the same other penalty terms keeps the two apart
C10_Witness ==
    /\ pc = "solved"
    /\ status = "FEASIBLE"
    /\ LET ids == ResolvedIds
       IN \E p \in DOMAIN ids :
             /\ Together(assign, ids[p][1], ids[p][2])
             /\ \E b \in CompleteAssignments :
                   /\ ~Together(b, ids[p][1], ids[p][2])
                   /\ Scored(b, ids, p).rest = Scored(assign, ids, p).rest

\* the constraints of the model that the prior pairs brought in
PairConstraints == {c \in model : c.kind = "both_in_g"}

\* C11: prior pairs are soft only: whatever the set of prior pairs, the
\* built model has the points of the model without any pair constraint (the
\* one built for the empty set), every resolved pair shares a group in some
\* point as soon as exactly-one and the other rules allow it, pairs with a
\* name that is not in the batch add no constraint, and no error is raised
\* while the model is built.
C11_PairsSoft ==
    pc = "built" =>
        LET ids == ResolvedIds
            added == PairConstraints
        IN /\ added = PairRules(G, ids)
           /\ \A c \in added : {c.on[1], c.on[2]} \subseteq Ids
           /\ error = NoError
           /\ added # {} =>
                 LET with_pairs == FeasiblePoints(model)
                     without_pairs == FeasiblePoints(model \ added)
                 IN /\ with_pairs = without_pairs
                    /\ \A p \in DOMAIN ids :
                          (\E a \in without_pairs : Together(a, ids[p][1], ids[p][2]))
                              => (\E a \in with_pairs : Together(a, ids[p][1], ids[p][2]))

\* groups are returned with a prior pair sharing a group, for a set of pairs
\* that also names a student who is not in the batch
C11_Witness ==
    /\ pc = "returned"
    /\ status = "OPTIMAL"
    /\ \E q \in prior_together_pairs : id_of(q[1]) = None \/ id_of(q[2]) = None
    /\ LET ids == ResolvedIds
       IN \E p \in DOMAIN ids : Together(assign, ids[p][1], ids[p][2])

\* scenario 3: five F and one M, groups of three, same-sex mode
Scenario3 ==
    /\ same_sex
    /\ group_size = 3
    /\ n = 6 /\ Cardinality(females) = 5 /\ Cardinality(males) = 1

\* C12 as stated: in scenario 3 the model has two groups and a solution is
\* returned: the solver does not find the model infeasible, and the returned
\* groups are two, one all-F and the other of one sex too.
C12_Scenario3Solved ==
    Scenario3 =>
        /\ pc \in {"built", "solved", "returned", "raised"} => G = 2
        /\ pc = "solved" => status # "INFEASIBLE"
        /\ pc = "returned" =>
              /\ Len(groups) = 2
              /\ \E g \in 1..2 : SexesIn(groups[g]) = {"F"}
              /\ \A g \in 1..2 : Cardinality(SexesIn(groups[g])) <= 1

\* C12, amended: in scenario 3 the model has two groups and its hard
\* constraints have no point (the M needs a group without F, which leaves five
\* F for one group of at most three): no groups are returned, the solver
\* ends INFEASIBLE or UNKNOWN and solve raises the error naming that status.
C12_Scenario3Infeasible ==
    (Scenario3 /\ pc \in {"built", "solved", "returned", "raised"}) =>
        /\ G = 2
        /\ pc = "built" => FeasiblePoints(model) = {}
        /\ pc = "solved" => status \in {"INFEASIBLE", "UNKNOWN"}
        /\ pc # "returned"
        /\ pc = "raised" => (error = SolverError(status) /\ groups = <<>>)

\* scenario 3 ended with the error that names INFEASIBLE
C12_Witness ==
    /\ Scenario3
    /\ pc = "raised"
    /\ status = "INFEASIBLE"
    /\ error[3] = "INFEASIBLE"

\* C13: a call with group_size <= 0, whatever the student list (the empty one
\* included), never gets as far as building the model and never returns: it
\* ends with the error 'group_size must be positive' and no groups.
C13_InvalidSizeRaises ==
    (pc \in {"start", "built", "solved", "returned", "raised"} /\ group_size <= 0) =>
        /\ pc \in {"start", "raised"}
        /\ model = {} /\ G = 0
        /\ groups = <<>>
        /\ pc = "raised" => error = <<"ValueError", "group_size must be positive", "">>

\* floor(N / K) and ceil(N / K) by their defining inequalities
FloorOfAverage == CHOOSE q \in 0..class_n : q * CLASSES <= class_n /\ class_n < (q + 1) * CLASSES

CeilOfAverage == CHOOSE q \in 0..class_n : (q - 1) * CLASSES < class_n /\ class_n <= q * CLASSES

\* C14: in every accepted solution of the class script the size-balance
\* penalty of every class of size z is CLASS_BALANCE_WEIGHT times the smaller
\* of |z - floor(N/K)| and |z - ceil(N/K)|: zero exactly when z is one of the
\* two, otherwise the weighted distance to the nearer one.
C14_ClassBalance ==
    ((pc = "class_solved" /\ status \in SolutionStatuses) \/ pc = "class_reported") =>
        LET lower == FloorOfAverage
            upper == CeilOfAverage
        IN \A c \in 1..Len(class_values) :
              LET z == class_values[c].class_size
                  penalty == ClassBalancePenalty(class_values[c].size_dev)
                  nearer == Min({Abs(z - lower), Abs(z - upper)})
              IN /\ z = class_values[c].female_count + class_values[c].male_count
                 /\ penalty = CLASS_BALANCE_WEIGHT * nearer
                 /\ penalty = 0 <=> z \in {lower, upper}
                 /\ z < lower => penalty = CLASS_BALANCE_WEIGHT * (lower - z)
                 /\ z > upper => penalty = CLASS_BALANCE_WEIGHT * (z - upper)

\* a reported solution, floor and ceiling being different, with a class at
\* one of the two and a class at neither that pays for its distance
C14_Witness ==
    /\ pc = "class_reported"
    /\ FloorOfAverage # CeilOfAverage
    /\ \E c \in 1..Len(class_values) :
          class_values[c].class_size \in {FloorOfAverage, CeilOfAverage}
    /\ \E c \in 1..Len(class_values) :
          /\ class_values[c].class_size \notin {FloorOfAverage, CeilOfAverage}
          /\ ClassBalancePenalty(class_values[c].size_dev) > 0

\* C15: the size term cannot tell feasible assignments apart: for every point
\* of the hard constraints the deviations |size_g - group_size| add up to
\* K * group_size - N, so the size penalty is the same for all of them.
C15_SizePenaltyConstant ==
    pc = "built" =>
        \A a \in FeasiblePoints(model) :
            /\ SizePenalty(a) = size_weight * (G * group_size - n)
            /\ SumRange([g \in Groups |-> Abs(CountIn(a, Ids, g) - group_size)], 0, G - 1)
                   = G * group_size - n

\* groups are returned that are not all full, and of different lengths
C15_Witness ==
    /\ pc = "returned"
    /\ status \in SolutionStatuses
    /\ G * group_size - n > 0
    /\ SizePenalty(assign) = G * group_size - n
    /\ \E g \in 1..Len(groups) : Len(groups[g]) = group_size
    /\ \E g \in 1..Len(groups) : Len(groups[g]) < group_size

\* C16: in mixed mode the hard constraints always have a point, for every
\* non-empty batch and every positive group size, with the rule of one F and
\* one M per group in the model or not; the solver therefore never ends
\* INFEASIBLE and solve never raises the error that names INFEASIBLE.
C16_MixedFeasible ==
    (~same_sex /\ pc \in {"built", "solved", "returned", "raised"}) =>
        /\ pc = "built" =>
              /\ n > 0 /\ group_size > 0
              /\ FeasiblePoints(model) # {}
        /\ status # "INFEASIBLE"
        /\ error[3] # "INFEASIBLE"

\* a solution of a mixed model that holds the rule for every group, with no
\* more F or no more M students than groups
C16_Witness ==
    /\ pc = "solved"
    /\ ~same_sex
    /\ status \in SolutionStatuses
    /\ \A g \in Groups : [kind |-> "female_min", on |-> g] \in model
                          /\ [kind |-> "male_min", on |-> g] \in model
    /\ G >= 2
    /\ Cardinality(females) = G \/ Cardinality(males) = G
====
